---- MODULE Spec2Model ----
(***************************************************************************)
(* pymetheus: the library store (collection, item, collection_entry), the  *)
(* collections panel, the items panel, the manage-collections dialog, the  *)
(* fields panel and its editors, modelled from src/pymetheus/__main__.py.  *)
(*                                                                         *)
(* A state is the program between two UI events: every handler, together   *)
(* with the messages and reactive watchers it triggers, is one action of   *)
(* Spec.  SpecCrash is the same program with the OK handler of the         *)
(* manage-collections dialog run statement by statement, so that the end   *)
(* of the process between its statements and its commit can be observed.   *)
(* The tables are created outside the modelled file: rowids are assigned   *)
(* as by an integer primary key and the references of collection_entry     *)
(* remove the entries of a deleted collection or item.                     *)
(* SpecDiscovery is the start of the process: main() and the search for   *)
(* the library file, from src/src/pymetheus/paths.py, on a file system of  *)
(* four directories.                                                       *)
(***************************************************************************)
EXTENDS Integers, Sequences, FiniteSets, TLC

VARIABLES
    db,                     \* the tables as the connection sees them
    disk,                   \* the tables as last committed (what survives a crash)
    nodes,                  \* leaves of the collections tree, in line order
    selected_node,          \* CollectionsPanel.selected_node
    cursor_line,            \* Tree.cursor_line (root is line 0)
    selected_collection_id, \* PymetheusApp / ItemsPanel.selected_collection_id
    rows,                   \* row keys of the items DataTable, in row order
    cursor_row,             \* row of the items DataTable cursor
    selected_row_key,       \* ItemsPanel.selected_row_key
    selected_item_rowid,    \* PymetheusApp / FieldsPanel.selected_item_rowid
    search_string,          \* ItemsPanel.search_string
    fields_panel,           \* FieldsPanel: item_object, selections and table rows
    screen,                 \* the modal screen on top, with its state
    startup,                \* main(): the file system, the arguments and the outcome
    last                    \* the last handler that ran and its input

vars == <<db, disk, nodes, selected_node, cursor_line, selected_collection_id,
          rows, cursor_row, selected_row_key, selected_item_rowid, search_string,
          fields_panel, screen, startup, last>>

(***************************************************************************)
(* Bounds                                                                  *)
(***************************************************************************)
\* largest rowid the collection table hands out before the model stops creating
MaxCollectionRowid == 2

\* largest rowid the item table hands out before the model stops creating
MaxItemRowid == 2

\* the names a user types into the rename dialog
RenameInputs == {"Collection 2"}

\* the item types offered by the type selection dialog
ItemTypes == {"book", "thesis"}

\* the most creators the model adds to one item
MaxCreators == 2

\* the texts a user submits in the search box
SearchInputs == {"", "book"}

\* the texts a user confirms in the editor of a standard field
FieldInputs == {"Quantum"}

(***************************************************************************)
(* Values                                                                  *)
(***************************************************************************)
\* Python's None where a rowid is expected (rowids start at 1)
None == 0

\* Python's None where a row key is expected (row keys are decimal strings)
NoKey == "None"

Max(S) == CHOOSE m \in S : \A x \in S : x <= m

Min(S) == CHOOSE m \in S : \A x \in S : m <= x

\* str(i_rowid): the key under which a row is added to the items table
RowKey(rowid) == ToString(rowid)

\* int(event.rowid), and the INTEGER affinity SQLite applies to a text parameter
IntOfKey(key) == CHOOSE n \in 0..(MaxItemRowid + 1) : ToString(n) = key

Drop(f, k) == [x \in (DOMAIN f) \ {k} |-> f[x]]

Put(f, k, v) == [x \in (DOMAIN f) \cup {k} |-> IF x = k THEN v ELSE f[x]]

RECURSIVE SortedSeq(_)
\* the elements of a set of integers in ascending order
SortedSeq(S) == IF S = {} THEN <<>> ELSE <<Min(S)>> \o SortedSeq(S \ {Min(S)})

Range(s) == {s[i] : i \in DOMAIN s}

\* Python's None where a string is expected
NoStr == "None"

(***************************************************************************)
(* Schema, names and items                                                 *)
(***************************************************************************)
\* ITEM_TYPE_NAMES[codename]: the display name of an item type
ITEM_TYPE_NAMES(codename) ==
    CASE codename = "book" -> "Book"
      [] codename = "thesis" -> "Thesis"
      [] OTHER -> "Journal Article"

\* item.type.fields: the names of the fields of an item type, in table order
fields(item_type) ==
    IF item_type = "thesis" THEN <<"title", "university", "date">> ELSE <<"title", "date">>

\* field.base_field: the base field of a type-specific field, the field itself
\* when it has none
base_field(name) == IF name = "university" THEN "publisher" ELSE name

\* item.type.creator_types: the creator types CreatorTypeSelectionScreen offers
creator_types(item_type) == <<"author", "editor">>

is_field_date(name) == name = "date"

\* the names a user types into the family box of the name editor
NameInputs == {"", "Shor"}

NameAttrs == {"family", "given", "suffix", "dropping_particle", "non_dropping_particle",
              "literal"}

\* NameData(): every attribute defaults to None
NameData ==
    [family |-> NoStr, given |-> NoStr, suffix |-> NoStr, dropping_particle |-> NoStr,
     non_dropping_particle |-> NoStr, literal |-> NoStr]

\* Input(value=...).value: a box opened on None holds the empty string
InputValue(initial) == IF initial = NoStr THEN "" ELSE initial

\* NameEditor on `initial`, OK pressed after `family` was typed into the first box
NameEditorOk(initial, family) ==
    [a \in NameAttrs |-> IF a = "family" THEN family ELSE InputValue(initial[a])]

Blank(text) == text = NoStr \/ text = ""

\* no name counts as empty: the editor's result is always stored
emptyNever(name) == FALSE

\* NameData.empty(): every attribute is unset or blank
empty(name) == \A a \in NameAttrs : Blank(name[a])

RECURSIVE JoinParts(_)
\* " ".join(parts)
JoinParts(parts) ==
    IF parts = <<>> THEN ""
    ELSE IF Len(parts) = 1 THEN parts[1]
    ELSE parts[1] \o " " \o JoinParts(Tail(parts))

\* str(creator): the literal when set, else the non-blank parts joined by spaces
render(name) ==
    IF ~Blank(name.literal) THEN name.literal
    ELSE JoinParts(SelectSeq(<<name.given, name.dropping_particle,
                               name.non_dropping_particle, name.family, name.suffix>>,
                             LAMBDA part : ~Blank(part)))

\* the key NameData.as_dict writes for an attribute
TransportKey(attr) ==
    CASE attr = "dropping_particle" -> "dropping-particle"
      [] attr = "non_dropping_particle" -> "non-dropping-particle"
      [] OTHER -> attr

AttrOfKey(key) == CHOOSE a \in NameAttrs : TransportKey(a) = key

\* a key only for the attributes that are neither None nor the empty string
NameData_as_dictOmitBlank(name) ==
    [k \in {TransportKey(a) : a \in {b \in NameAttrs : ~Blank(name[b])}} |->
        name[AttrOfKey(k)]]

\* NameData.as_dict: a key for every attribute that is not None
NameData_as_dict(name) ==
    [k \in {TransportKey(a) : a \in {b \in NameAttrs : name[b] # NoStr}} |->
        name[AttrOfKey(k)]]

\* NameData built from a stored mapping: absent keys are None
NameData_from_dict(new_obj) ==
    [a \in NameAttrs |-> IF TransportKey(a) \in DOMAIN new_obj
                         THEN new_obj[TransportKey(a)] ELSE NoStr]

\* Item.as_dict followed by json.dumps: the row values update_item_wo_commit binds
Item_as_dict(item) ==
    [type |-> item.type,
     field_data |-> item.field_data,
     creators |-> [t \in DOMAIN item.creators |->
                     [i \in 1..Len(item.creators[t]) |->
                        NameData_as_dict(item.creators[t][i])]]]

\* json.loads followed by Item.from_triplet
Item_from_triplet(row) ==
    [type |-> row.type,
     field_data |-> row.field_data,
     creators |-> [t \in DOMAIN row.creators |->
                     [i \in 1..Len(row.creators[t]) |->
                        NameData_from_dict(row.creators[t][i])]]]

\* str.casefold on the texts of the model
casefold(text) ==
    CASE text = "Book" -> "book"
      [] text = "Journal Article" -> "journal article"
      [] text = "Thesis" -> "thesis"
      [] text = "Quantum" -> "quantum"
      [] text = "Shor" -> "shor"
      [] OTHER -> text

\* needle in text: among the texts of the model none properly contains a needle
Contains(text, needle) == needle = "" \/ needle = text

\* the texts Item.search looks into
SearchTexts(item) ==
    {ITEM_TYPE_NAMES(item.type)}
        \cup {item.field_data[f] : f \in DOMAIN item.field_data}
        \cup UNION {{render(item.creators[t][i]) : i \in 1..Len(item.creators[t])} :
                        t \in DOMAIN item.creators}

\* item.search(search_string, casefolded=True)
search(item, needle) == \E text \in SearchTexts(item) : Contains(casefold(text), needle)

(***************************************************************************)
(* The date editor                                                         *)
(***************************************************************************)
\* a piece of the text between two "-": digits that int() accepts, or not
Digits(n) == [int |-> TRUE, value |-> n]

Word == [int |-> FALSE, value |-> 0]

\* the texts a user confirms in the date editor, as value.split("-")
DateInputs ==
    {<<Digits(2024), Digits(2), Digits(29)>>,
     <<Digits(2023), Digits(2), Digits(29)>>,
     <<Digits(1900), Digits(2), Digits(29)>>,
     <<Digits(2024), Digits(13), Digits(1)>>,
     <<Digits(2024), Digits(4), Digits(31)>>,
     <<Digits(0), Digits(1), Digits(1)>>,
     <<Digits(2024), Word, Digits(1)>>,
     <<Digits(2024), Digits(2)>>,
     <<Digits(2024), Digits(2), Digits(29), Digits(1)>>}

IsLeap(y) == (y % 4 = 0 /\ y % 100 # 0) \/ y % 400 = 0

DaysInMonth(y, m) ==
    IF m = 2 THEN (IF IsLeap(y) THEN 29 ELSE 28)
    ELSE IF m \in {4, 6, 9, 11} THEN 30 ELSE 31

\* every day is taken for a day of its month
IsDateNoDayCheck(y, m, d) == 1 <= y /\ y <= 9999 /\ 1 <= m /\ m <= 12 /\ 1 <= d /\ d <= 31

\* datetime.date(year=y, month=m, day=d) does not raise ValueError
IsDate(y, m, d) ==
    /\ 1 <= y /\ y <= 9999
    /\ 1 <= m /\ m <= 12
    /\ 1 <= d /\ d <= DaysInMonth(y, m)

\* f"{n:0{width}d}" for n >= 0
Pad(n, width) ==
    LET text == ToString(n)
        len == IF n < 10 THEN 1 ELSE IF n < 100 THEN 2 ELSE IF n < 1000 THEN 3 ELSE 4
    IN  CASE width - len = 3 -> "000" \o text
          [] width - len = 2 -> "00" \o text
          [] width - len = 1 -> "0" \o text
          [] OTHER -> text

\* the unpacking and the int() calls of the first try block succeed
IsYMD(parts) == Len(parts) = 3 /\ \A i \in 1..Len(parts) : parts[i].int

\* DateFieldEditor.on_button_pressed, OK: the value the screen is dismissed with
DateFieldEditorOk(parts) ==
    IF ~IsYMD(parts) THEN NoStr
    ELSE IF ~IsDate(parts[1].value, parts[2].value, parts[3].value) THEN NoStr
    ELSE Pad(parts[1].value, 4) \o "-" \o Pad(parts[2].value, 2) \o "-"
            \o Pad(parts[3].value, 2)

(***************************************************************************)
(* The store                                                               *)
(***************************************************************************)
\* rowid of a row inserted into a table whose rowids are R
NextRowid(R) == IF R = {} THEN 1 ELSE Max(R) + 1

\* the foreign-key action of collection_entry.collection on a deleted collection
CascadeCollection(entries, rowid) == SelectSeq(entries, LAMBDA e : e.collection # rowid)

\* the reference has no action: the entries of a deleted item stay
CascadeItemKeep(entries, rowid) == entries

\* the foreign-key action of collection_entry.item on a deleted item
CascadeItem(entries, rowid) == SelectSeq(entries, LAMBDA e : e.item # rowid)

\* the statement run with a parameter that matches no row
DeleteCollectionNoRow(d, rowid) == d

\* the statement followed by the removal of the items the collection held
DeleteCollectionAndItems(d, rowid) ==
    [collection |-> Drop(d.collection, rowid),
     item |-> [r \in {x \in DOMAIN d.item :
                       \A k \in DOMAIN d.collection_entry :
                           d.collection_entry[k] # [collection |-> rowid, item |-> x]}
               |-> d.item[r]],
     collection_entry |-> CascadeCollection(d.collection_entry, rowid)]

\* delete from collection where rowid = ?
DeleteCollection(d, rowid) ==
    IF rowid \in DOMAIN d.collection
    THEN [d EXCEPT !.collection = Drop(@, rowid),
                   !.collection_entry = CascadeCollection(@, rowid)]
    ELSE d

\* f"Collection {counter}"
CollectionName(counter) == "Collection " \o ToString(counter)

\* select 1 from collection where name = ?
NameExists(d, name) == \E r \in DOMAIN d.collection : d.collection[r] = name

\* the name is numbered by the number of collections instead of searched for
FindCounterByCount(d, counter) == Cardinality(DOMAIN d.collection) + 1

RECURSIVE FindCounter(_, _)
\* the while loop of action_create_coll, entered with counter
FindCounter(d, counter) ==
    IF ~NameExists(d, CollectionName(counter))
    THEN counter
    ELSE FindCounter(d, counter + 1)

RECURSIVE NameSearchSameCounter(_, _, _)
\* the loop without counter += 1: the same name is tested again
NameSearchSameCounter(d, counter, budget) ==
    IF budget = 0
    THEN [broke |-> FALSE, counter |-> counter, tests |-> 0]
    ELSE IF ~NameExists(d, CollectionName(counter))
    THEN [broke |-> TRUE, counter |-> counter, tests |-> 1]
    ELSE [NameSearchSameCounter(d, counter, budget - 1) EXCEPT !.tests = @ + 1]

RECURSIVE NameSearch(_, _, _)
\* the while loop of action_create_coll entered with counter and followed for at
\* most `budget` turns: whether it reached break, the counter it stopped at and
\* the number of select statements it executed
NameSearch(d, counter, budget) ==
    IF budget = 0
    THEN [broke |-> FALSE, counter |-> counter, tests |-> 0]
    ELSE IF ~NameExists(d, CollectionName(counter))
    THEN [broke |-> TRUE, counter |-> counter, tests |-> 1]
    ELSE [NameSearch(d, counter + 1, budget - 1) EXCEPT !.tests = @ + 1]

\* insert into collection (name) values (?) returning rowid
InsertCollection(d, name) == [d EXCEPT !.collection = Put(@, NextRowid(DOMAIN @), name)]

\* update collection set name = ? without the where clause
UpdateCollectionNameAll(d, rowid, name) ==
    [d EXCEPT !.collection = [r \in DOMAIN d.collection |-> name]]

\* update collection set name = ? where rowid = ?
UpdateCollectionName(d, rowid, name) ==
    IF rowid \in DOMAIN d.collection
    THEN [d EXCEPT !.collection[rowid] = name]
    ELSE d

\* insert into item (type, field_data, creators) values (?, '{}', '{}')
InsertItem(d, item_type) ==
    [d EXCEPT !.item = Put(@, NextRowid(DOMAIN @),
                           [type |-> item_type, field_data |-> <<>>, creators |-> <<>>])]

\* the statement of action_new_item pasted with a fixed type instead of the select
InsertItemCopyBlank(d, rowid) ==
    IF rowid \in DOMAIN d.item THEN InsertItem(d, "book") ELSE d

\* insert into item (type, field_data, creators) select type, field_data, creators
\* from item where rowid = ? limit 1
InsertItemCopy(d, rowid) ==
    IF rowid \in DOMAIN d.item
    THEN [d EXCEPT !.item = Put(@, NextRowid(DOMAIN @), d.item[rowid])]
    ELSE d

\* the statement run with a parameter that matches no row
DeleteItemNoRow(d, rowid) == d

\* the memberships are removed and the item row is left in place
DeleteItemEntriesOnly(d, rowid) ==
    [d EXCEPT !.collection_entry = CascadeItem(@, rowid)]

\* delete from item where rowid = ?
DeleteItem(d, rowid) ==
    IF rowid \in DOMAIN d.item
    THEN [d EXCEPT !.item = Drop(@, rowid),
                   !.collection_entry = CascadeItem(@, rowid)]
    ELSE d

\* the statement without its where clause: every row is overwritten
UpdateItemEveryRow(d, row, rowid) == [d EXCEPT !.item = [r \in DOMAIN @ |-> row]]

\* update item set type = ?, field_data = ?, creators = ? where rowid = ?
UpdateItem(d, row, rowid) ==
    IF rowid \in DOMAIN d.item
    THEN [d EXCEPT !.item[rowid] = row]
    ELSE d

\* select type, field_data, creators from item where rowid = ?
ItemExists(d, rowid) == rowid \in DOMAIN d.item

\* the dialog inserts without deleting first
DeleteEntriesNone(d, rowid) == d

\* the delete compares the collection column instead of the item column
DeleteEntriesOfCollection(d, rowid) ==
    [d EXCEPT !.collection_entry = SelectSeq(@, LAMBDA e : e.collection # rowid)]

\* delete from collection_entry where item = ?
DeleteEntriesOfItem(d, rowid) ==
    [d EXCEPT !.collection_entry = SelectSeq(@, LAMBDA e : e.item # rowid)]

\* insert into collection_entry (collection, item) values (?, ?)
InsertEntry(d, col_rowid, item_rowid) ==
    [d EXCEPT !.collection_entry = Append(@, [collection |-> col_rowid, item |-> item_rowid])]

\* a connection in autocommit mode: every statement is durable at once
AfterExecuteAutocommit(committed, working) == working

\* the committed tables after a statement ran on the connection: the statement
\* joins the open transaction and nothing is durable before commit()
AfterExecute(committed, working) == committed

\* the committed tables after db_connection.commit()
AfterCommit(committed, working) == working

\* the collections that have an entry for an item
CollectionsOf(d, item_rowid) ==
    {d.collection_entry[k].collection :
        k \in {j \in DOMAIN d.collection_entry : d.collection_entry[j].item = item_rowid}}

\* the items that have an entry for a collection
ItemsOf(d, col_rowid) ==
    {d.collection_entry[k].item :
        k \in {j \in DOMAIN d.collection_entry : d.collection_entry[j].collection = col_rowid}}

\* the query without its where clause
ListItemsNoFilter(d, collection_id) ==
    IF collection_id # None
    THEN LET joined == SelectSeq(d.collection_entry, LAMBDA e : e.item \in DOMAIN d.item)
         IN  [i \in 1..Len(joined) |-> joined[i].item]
    ELSE SortedSeq(DOMAIN d.item)

\* the query of refresh_dt: the rowids of the fetched rows, in fetch order
ListItems(d, collection_id) ==
    IF collection_id # None
    THEN LET joined == SelectSeq(d.collection_entry,
                           LAMBDA e : e.collection = collection_id
                                      /\ e.item \in DOMAIN d.item)
         IN  [i \in 1..Len(joined) |-> joined[i].item]
    ELSE SortedSeq(DOMAIN d.item)

(***************************************************************************)
(* Widgets                                                                 *)
(***************************************************************************)
RootNode == [data |-> None, attached |-> TRUE]

Leaf(rowid) == [data |-> rowid, attached |-> TRUE]

NoScreen == [name |-> "none", item_rowid |-> NoKey, todo |-> <<>>]

\* the application has left its event loop
Exited == [name |-> "exited", item_rowid |-> NoKey, todo |-> <<>>]

\* the node on a line of the tree: the root on line 0, then the leaves
NodeAtLine(ns, line) == IF line = 0 THEN RootNode ELSE Leaf(ns[line].data)

\* FieldsPanel before any item was loaded: item_object, selected_field_name and
\* selected_creator are None and both tables are empty
NoItem == [type |-> NoStr, field_data |-> <<>>, creators |-> <<>>]

NoCreator == <<NoStr, 0>>

EmptyPanel ==
    [item_object |-> NoItem, selected_field_name |-> NoStr, selected_creator |-> NoCreator,
     field_rows |-> <<>>, creator_rows |-> <<>>, creator_cursor |-> 0]

\* the rows the loop over item.type.fields adds to the fields table: the key is
\* the base field, the value is item.field_data.get(field name)
FieldRows(item) ==
    [i \in 1..Len(fields(item.type)) |->
        [key |-> base_field(fields(item.type)[i]),
         value |-> IF fields(item.type)[i] \in DOMAIN item.field_data
                   THEN item.field_data[fields(item.type)[i]] ELSE NoStr]]

RECURSIVE CreatorRows(_, _)
\* the rows the loop over item.type.creator_types adds to the creators table:
\* the key f"{creator_type}.{i}" and the creator shown in the row
CreatorRows(item, types) ==
    IF types = <<>> THEN <<>>
    ELSE (IF Head(types) \in DOMAIN item.creators
          THEN [i \in 1..Len(item.creators[Head(types)]) |->
                  [key |-> <<Head(types), i - 1>>, name |-> item.creators[Head(types)][i]]]
          ELSE <<>>) \o CreatorRows(item, Tail(types))

\* FieldsPanel.watch_selected_item_rowid and the RowHighlighted events of the first
\* row added to each table
watch_selected_item_rowid(panel, d, value) ==
    IF value = None \/ ~ItemExists(d, value)
    THEN [panel EXCEPT !.field_rows = <<>>, !.creator_rows = <<>>, !.creator_cursor = 0]
    ELSE LET item == Item_from_triplet(d.item[value])
             creators == CreatorRows(item, creator_types(item.type))
         IN  [item_object |-> item,
              selected_field_name |-> "itemType",
              selected_creator |-> IF Len(creators) > 0 THEN creators[1].key
                                   ELSE panel.selected_creator,
              field_rows |-> <<"itemType">> \o [i \in DOMAIN FieldRows(item) |->
                                                    FieldRows(item)[i].key],
              creator_rows |-> creators,
              creator_cursor |-> 0]

\* PymetheusApp.on_item_selected: the reactive runs the watcher of the fields panel
\* when the value changes
ItemSelected(d, value) ==
    /\ selected_item_rowid' = value
    /\ fields_panel' = IF value # selected_item_rowid
                       THEN watch_selected_item_rowid(fields_panel, d, value)
                       ELSE fields_panel

\* refresh_dt adds every fetched row to the table
ShownAll(d, fetched, needle) == fetched

\* the rows of `fetched` that refresh_dt adds to the table
Shown(d, fetched, needle) ==
    SelectSeq(fetched, LAMBDA r : needle = ""
                                  \/ search(Item_from_triplet(d.item[r]), casefold(needle)))

\* refresh_dt without dt.move_cursor(row=0) and dt.action_select_cursor(), and
\* without the highlight of the first row added
RefreshDtKeepSelection(d, collection_id, needle, old_key, old_item) ==
    LET fetched == ListItems(d, collection_id)
        shown == Shown(d, fetched, needle)
    IN  [rows |-> [i \in 1..Len(shown) |-> RowKey(shown[i])],
         cursor_row |-> 0,
         selected_row_key |-> old_key,
         selected_item_rowid |-> old_item]

\* ItemsPanel.refresh_dt followed by on_select
RefreshDt(d, collection_id, needle, old_key, old_item) ==
    LET fetched == ListItems(d, collection_id)
        shown == Shown(d, fetched, needle)
        keys == [i \in 1..Len(shown) |-> RowKey(shown[i])]
    IN  [rows |-> keys,
         cursor_row |-> 0,
         selected_row_key |-> IF Len(keys) > 0 THEN keys[1] ELSE old_key,
         selected_item_rowid |-> IF Len(keys) > 0 THEN IntOfKey(keys[1]) ELSE old_item]

\* the watchers of ItemsPanel.selected_collection_id and ItemsPanel.search_string
\* on the tables d, then on_item_selected
Refreshed(d, collection_id, needle) ==
    LET r == RefreshDt(d, collection_id, needle, selected_row_key, selected_item_rowid)
    IN  /\ rows' = r.rows
        /\ cursor_row' = r.cursor_row
        /\ selected_row_key' = r.selected_row_key
        /\ ItemSelected(d, r.selected_item_rowid)

\* on_collection_selected and the watcher of ItemsPanel.selected_collection_id
CollectionSelected(d, rowid) ==
    IF rowid # selected_collection_id
    THEN /\ selected_collection_id' = rowid
         /\ Refreshed(d, rowid, search_string)
    ELSE UNCHANGED <<selected_collection_id, rows, cursor_row, selected_row_key,
                     selected_item_rowid, fields_panel>>

\* the widgets after on_mount of the three panels on the tables d
Mounted(d) ==
    LET cols == SortedSeq(DOMAIN d.collection)
        r == RefreshDt(d, None, "", NoKey, None)
    IN  /\ nodes' = [i \in 1..Len(cols) |-> [data |-> cols[i], label |-> d.collection[cols[i]]]]
        /\ selected_node' = RootNode
        /\ cursor_line' = 0
        /\ selected_collection_id' = None
        /\ search_string' = ""
        /\ rows' = r.rows
        /\ cursor_row' = r.cursor_row
        /\ selected_row_key' = r.selected_row_key
        /\ selected_item_rowid' = r.selected_item_rowid
        /\ fields_panel' = watch_selected_item_rowid(EmptyPanel, d, r.selected_item_rowid)
        /\ screen' = NoScreen

\* no line: action_select_cursor finds no node under the cursor
NoLine == 0 - 1

\* the lines Tree.action_select_cursor can find under the cursor after the node
\* on line `line` was removed and `count` leaves remain
SelectCursorLines(line, count) ==
    IF line <= count THEN {line} ELSE {NoLine, count}

\* no modal screen was shown, or it was left by Cancel: no button, no text
NoButton == ""
NoInput == <<>>

\* record the handler that ran: the rowid it addressed, whether that row existed,
\* the set it was given and the memberships the row had before
Done(op, id, found, sel, old) ==
    last' = [op |-> op, id |-> id, found |-> found, sel |-> sel, old |-> old,
             saved |-> FALSE, notified |-> FALSE, button |-> NoButton, input |-> NoInput,
             name |-> "", index |-> 0]

\* record a handler that returned because its modal screen was left by Cancel
DoneCancel(modal) ==
    last' = [op |-> "cancel", id |-> None, found |-> FALSE, sel |-> {}, old |-> {},
             saved |-> FALSE, notified |-> FALSE, button |-> "cancel", input |-> NoInput,
             name |-> modal, index |-> 0]

\* the row a handler of the fields panel addresses: the field name, or the
\* creator type and index
At(op, name, index) == [op |-> op, name |-> name, index |-> index]

\* record a handler of the fields panel: the button and text its modal screen
\* was left with, whether it ran update_item_wo_commit and whether an error was
\* notified to the user
DoneEdit(at, result, saved) ==
    last' = [op |-> at.op, id |-> selected_item_rowid,
             found |-> ItemExists(db, selected_item_rowid), sel |-> {}, old |-> {},
             saved |-> saved, notified |-> result.notified, button |-> result.button,
             input |-> result.input, name |-> at.name, index |-> at.index]

Idle == screen.name = "none"

(***************************************************************************)
(* Collections panel                                                       *)
(***************************************************************************)
\* the user moves the tree cursor to a line
on_tree_node_highlighted ==
    /\ Idle
    /\ \E line \in 0..Len(nodes) :
        /\ line # cursor_line
        /\ cursor_line' = line
        /\ selected_node' = NodeAtLine(nodes, line)
        /\ CollectionSelected(db, NodeAtLine(nodes, line).data)
    /\ Done("select_collection", None, FALSE, {}, {})
    /\ UNCHANGED <<db, disk, nodes, search_string, screen>>
    /\ UNCHANGED startup

action_delete_coll ==
    /\ Idle
    /\ selected_node.data # None
    /\ LET d == DeleteCollection(db, selected_node.data)
           remaining == SelectSeq(nodes, LAMBDA n : n.data # selected_node.data)
       IN  /\ db' = d
           /\ disk' = AfterCommit(disk, d)
           /\ IF selected_node.attached
              THEN \* node.remove(), then action_select_cursor()
                   /\ nodes' = remaining
                   /\ screen' = screen
                   /\ \E line \in SelectCursorLines(cursor_line, Len(remaining)) :
                        IF line = NoLine
                        THEN /\ selected_node' = [selected_node EXCEPT !.attached = FALSE]
                             /\ UNCHANGED <<cursor_line, selected_collection_id,
                                            rows, cursor_row, selected_row_key,
                                            selected_item_rowid, fields_panel>>
                        ELSE /\ cursor_line' = line
                             /\ selected_node' = NodeAtLine(remaining, line)
                             /\ CollectionSelected(d, NodeAtLine(remaining, line).data)
              ELSE \* the node was removed before: node.remove() raises, the app exits
                   /\ screen' = Exited
                   /\ UNCHANGED <<nodes, selected_node, cursor_line,
                                  selected_collection_id, rows, cursor_row,
                                  selected_row_key, selected_item_rowid, fields_panel>>
    /\ Done("delete_collection", selected_node.data,
            selected_node.data \in DOMAIN db.collection, {}, ItemsOf(db, selected_node.data))
    /\ UNCHANGED search_string
    /\ UNCHANGED startup

\* new is the result of RenameCollectionScreen, "" when it is None
action_rename_coll ==
    /\ Idle
    /\ selected_node.data # None
    /\ \E new \in RenameInputs \cup {""} :
        IF new = ""
        THEN /\ DoneCancel("RenameCollectionScreen")
             /\ UNCHANGED <<db, disk, nodes>>
        ELSE LET d == UpdateCollectionName(db, selected_node.data, new)
             IN  /\ db' = d
                 /\ disk' = AfterCommit(disk, d)
                 /\ nodes' = IF selected_node.attached
                              THEN [i \in 1..Len(nodes) |->
                                      IF nodes[i].data = selected_node.data
                                      THEN [nodes[i] EXCEPT !.label = new]
                                      ELSE nodes[i]]
                              ELSE nodes
                 /\ Done("rename_collection", selected_node.data,
                         selected_node.data \in DOMAIN db.collection, {}, {})
    /\ UNCHANGED <<selected_node, cursor_line, selected_collection_id, rows, cursor_row,
                   selected_row_key, selected_item_rowid, search_string,
                   fields_panel, screen>>
    /\ UNCHANGED startup

action_create_coll ==
    /\ Idle
    /\ NextRowid(DOMAIN db.collection) <= MaxCollectionRowid
    /\ LET new_name == CollectionName(FindCounter(db, 1))
           rowid == NextRowid(DOMAIN db.collection)
           d == InsertCollection(db, new_name)
       IN  /\ db' = d
           /\ disk' = AfterCommit(disk, d)
           /\ nodes' = Append(nodes, [data |-> rowid, label |-> new_name])
           /\ Done("create_collection", rowid, TRUE, {}, {})
    /\ UNCHANGED <<selected_node, cursor_line, selected_collection_id, rows, cursor_row,
                   selected_row_key, selected_item_rowid, search_string,
                   fields_panel, screen>>
    /\ UNCHANGED startup

(***************************************************************************)
(* Items panel                                                             *)
(***************************************************************************)
\* the row key selected after a row was added to the items table: the first
\* row of an empty table is highlighted, which selects it
KeyAfterAddRow(key) == IF Len(rows) = 0 THEN key ELSE selected_row_key

ItemAfterAddRow(key) == IF Len(rows) = 0 THEN IntOfKey(key) ELSE selected_item_rowid

\* the user moves the cursor of the items table to a row
on_highlight ==
    /\ Idle
    /\ \E row \in 0..(Len(rows) - 1) :
        /\ row # cursor_row
        /\ cursor_row' = row
        /\ selected_row_key' = rows[row + 1]
        /\ ItemSelected(db, IntOfKey(rows[row + 1]))
    /\ Done("other", None, FALSE, {}, {})
    /\ UNCHANGED <<db, disk, nodes, selected_node, cursor_line, selected_collection_id,
                   rows, search_string, screen>>
    /\ UNCHANGED startup

\* item_type is the result of ItemTypeSelectionScreen, "" when it is None
action_new_item ==
    /\ Idle
    /\ \E item_type \in ItemTypes \cup {""} :
        IF item_type = ""
        THEN /\ DoneCancel("ItemTypeSelectionScreen")
             /\ UNCHANGED <<db, disk, rows, selected_row_key, selected_item_rowid,
                            fields_panel>>
        ELSE /\ NextRowid(DOMAIN db.item) <= MaxItemRowid
             /\ LET d == InsertItem(db, item_type)
                    key == RowKey(NextRowid(DOMAIN db.item))
                IN  /\ db' = d
                    /\ disk' = AfterCommit(disk, d)
                    /\ rows' = Append(rows, key)
                    /\ selected_row_key' = KeyAfterAddRow(key)
                    /\ ItemSelected(d, ItemAfterAddRow(key))
                    /\ Done("new_item", IntOfKey(key), TRUE, {}, {})
    /\ UNCHANGED <<nodes, selected_node, cursor_line, selected_collection_id, cursor_row,
                   search_string, screen>>
    /\ UNCHANGED startup

action_duplicate_item ==
    /\ Idle
    /\ IF selected_row_key = NoKey \/ IntOfKey(selected_row_key) \notin DOMAIN db.item
       THEN \* None has no .value, or fetchone() is None and cannot be unpacked
            /\ screen' = Exited
            /\ Done("duplicate_item_none", None, FALSE, {}, {})
            /\ UNCHANGED <<db, disk, rows, selected_row_key, selected_item_rowid,
                           fields_panel>>
       ELSE /\ NextRowid(DOMAIN db.item) <= MaxItemRowid
            /\ LET old_rowid == IntOfKey(selected_row_key)
                   d == InsertItemCopy(db, old_rowid)
                   key == RowKey(NextRowid(DOMAIN db.item))
               IN  /\ db' = d
                   /\ disk' = AfterCommit(disk, d)
                   /\ rows' = Append(rows, key)
                   /\ selected_row_key' = KeyAfterAddRow(key)
                   /\ ItemSelected(d, ItemAfterAddRow(key))
                   /\ Done("duplicate_item", old_rowid, TRUE, {}, {})
            /\ screen' = screen
    /\ UNCHANGED <<nodes, selected_node, cursor_line, selected_collection_id, cursor_row,
                   search_string>>
    /\ UNCHANGED startup

action_delete_item ==
    /\ Idle
    /\ selected_row_key # NoKey
    /\ LET rowid == IntOfKey(selected_row_key)
           d == DeleteItem(db, rowid)
           remaining == SelectSeq(rows, LAMBDA k : k # selected_row_key)
           clamped == IF cursor_row < Len(remaining) THEN cursor_row
                      ELSE IF Len(remaining) = 0 THEN 0 ELSE Len(remaining) - 1
       IN  /\ db' = d
           /\ disk' = AfterCommit(disk, d)
           /\ Done("delete_item", rowid, rowid \in DOMAIN db.item, {}, CollectionsOf(db, rowid))
           /\ IF selected_row_key \in Range(rows)
              THEN \* dt.remove_row, selected_row_key = None, dt.action_select_cursor()
                   /\ rows' = remaining
                   /\ cursor_row' = clamped
                   /\ selected_row_key' =
                        IF Len(remaining) > 0 THEN remaining[clamped + 1] ELSE NoKey
                   /\ ItemSelected(d, IF Len(remaining) > 0
                                       THEN IntOfKey(remaining[clamped + 1])
                                       ELSE selected_item_rowid)
                   /\ screen' = screen
              ELSE \* dt.remove_row raises RowDoesNotExist, the app exits
                   /\ screen' = Exited
                   /\ UNCHANGED <<rows, cursor_row, selected_row_key, selected_item_rowid,
                                  fields_panel>>
    /\ UNCHANGED <<nodes, selected_node, cursor_line, selected_collection_id,
                   search_string>>
    /\ UNCHANGED startup

\* the user submits a text in the search box
on_input_submit ==
    /\ Idle
    /\ \E value \in SearchInputs :
        /\ value # search_string
        /\ search_string' = value
        /\ Refreshed(db, selected_collection_id, value)
    /\ Done("search", None, FALSE, {}, {})
    /\ UNCHANGED <<db, disk, nodes, selected_node, cursor_line, selected_collection_id,
                   screen>>
    /\ UNCHANGED startup

(***************************************************************************)
(* Fields panel                                                            *)
(***************************************************************************)
\* the guards at the top of action_clear_field, action_edit_field and
\* action_add_creator
PanelReady ==
    /\ Idle
    /\ selected_item_rowid # None
    /\ fields_panel.item_object # NoItem

\* what the handlers of the fields panel leave alone
PanelFrame ==
    UNCHANGED <<nodes, selected_node, cursor_line, selected_collection_id, rows,
                cursor_row, selected_row_key, selected_item_rowid, search_string,
                startup>>

\* a handler of the fields panel that returns before it changes anything
Return(at, result) ==
    /\ DoneEdit(at, result, FALSE)
    /\ UNCHANGED <<db, disk, fields_panel, screen>>

\* a handler of the fields panel that raises before it changes anything
Raise(at, result) ==
    /\ screen' = Exited
    /\ DoneEdit(at, result, FALSE)
    /\ UNCHANGED <<db, disk, fields_panel>>

\* update_item_wo_commit(item, selected_item_rowid) without the commit after it
SaveWoCommit(at, result, item) ==
    /\ db' = UpdateItem(db, Item_as_dict(item), selected_item_rowid)
    /\ disk' = disk
    /\ DoneEdit(at, result, TRUE)

\* update_item_wo_commit(item, selected_item_rowid), then db_connection.commit()
Save(at, result, item) ==
    LET d == UpdateItem(db, Item_as_dict(item), selected_item_rowid)
    IN  /\ db' = d
        /\ disk' = AfterCommit(disk, d)
        /\ DoneEdit(at, result, TRUE)

\* self.selected_field_name == "itemType"
IsProtected(name) == name = "itemType"

\* the handler shows no modal screen
NoModal ==
    [button |-> NoButton, input |-> NoInput, none |-> FALSE, value |-> NoStr,
     notified |-> FALSE]

\* OK on the text `input`: dismiss(value)
Dismissed(input, value) ==
    [button |-> "ok", input |-> input, none |-> FALSE, value |-> value, notified |-> FALSE]

\* Cancel: dismiss(None); `value` stands for None where a value is read
Cancelled(value) ==
    [button |-> "cancel", input |-> NoInput, none |-> TRUE, value |-> value,
     notified |-> FALSE]

\* OK of DateFieldEditor on the text `parts`: dismiss(new_date.isoformat()), or
\* notify(...) and dismiss(None)
DateDismissed(parts) ==
    [button |-> "ok", input |-> parts, none |-> DateFieldEditorOk(parts) = NoStr,
     value |-> DateFieldEditorOk(parts), notified |-> DateFieldEditorOk(parts) = NoStr]

\* the results of DateFieldEditor: Cancel, or OK on one of the texts
DateFieldEditorResults ==
    {Cancelled(NoStr)} \cup {DateDismissed(parts) : parts \in DateInputs}

\* the results of StandardFieldEditor
StandardFieldEditorResults ==
    {Cancelled(NoStr)} \cup {Dismissed(<<text>>, text) : text \in FieldInputs}

\* the results of NameEditor opened on a creator
NameEditorResults(initial) ==
    {Cancelled(NameData)} \cup
    {Dismissed(<<family>>, NameEditorOk(initial, family)) : family \in NameInputs}

\* the results of CreatorTypeSelectionScreen
CreatorTypeSelectionResults(item_type) ==
    {Cancelled(NoStr)} \cup {Dismissed(<<t>>, t) : t \in Range(creator_types(item_type))}

\* the result of a modal screen is used without the test for None
IsNoResultNever(result) == FALSE

\* new_value is None, creator_type is None
IsNoResult(result) == result.none

\* item.field_data[name] = new_value
SetField(item, name, new_value) == [item EXCEPT !.field_data = Put(@, name, new_value)]

\* del item.field_data[name]
DelField(item, name) == [item EXCEPT !.field_data = Drop(@, name)]

\* the list without the element at the 0-based index
DelAt(list, index) == SubSeq(list, 1, index) \o SubSeq(list, index + 2, Len(list))

\* del item.creators[sel_c_type][sel_c_index] without the removal of the emptied key
RemoveCreatorKeepKey(item, sel_c_type, sel_c_index) ==
    [item EXCEPT !.creators[sel_c_type] = DelAt(@, sel_c_index)]

\* del item.creators[sel_c_type][sel_c_index]; the key is deleted with its last creator
RemoveCreator(item, sel_c_type, sel_c_index) ==
    LET rest == DelAt(item.creators[sel_c_type], sel_c_index)
    IN  [item EXCEPT !.creators = IF rest = <<>> THEN Drop(@, sel_c_type)
                                  ELSE Put(@, sel_c_type, rest)]

\* item.creators[sel_c_type][sel_c_index] = new_value
ReplaceCreator(item, sel_c_type, sel_c_index, new_value) ==
    [item EXCEPT !.creators[sel_c_type][sel_c_index + 1] = new_value]

\* item.creators[creator_type] = [] when absent, then append
AppendCreator(item, creator_type, name) ==
    [item EXCEPT !.creators =
        Put(@, creator_type,
            (IF creator_type \in DOMAIN @ THEN @[creator_type] ELSE <<>>) \o <<name>>)]

\* the number of creators of an item
CreatorCount(item) ==
    Len(CreatorRows(item, creator_types(item.type)))

RowKeys(table) == {table[i].key : i \in DOMAIN table}

\* the states of the creators table and of selected_creator after
\* creators.remove_row(key): the cursor is clamped to the last row, which is
\* highlighted; a cursor that stays in place may or may not highlight the row
\* that moved under it
AfterRemoveRow(panel, key) ==
    LET table == SelectSeq(panel.creator_rows, LAMBDA row : row.key # key)
        cursor == panel.creator_cursor
    IN  IF Len(table) = 0
        THEN {[panel EXCEPT !.creator_rows = table, !.creator_cursor = 0]}
        ELSE IF cursor >= Len(table)
        THEN {[panel EXCEPT !.creator_rows = table, !.creator_cursor = Len(table) - 1,
                            !.selected_creator = table[Len(table)].key]}
        ELSE {[panel EXCEPT !.creator_rows = table],
              [panel EXCEPT !.creator_rows = table,
                            !.selected_creator = table[cursor + 1].key]}

\* the user moves the cursor of the fields table or of the creators table
on_dt_row_highlight ==
    /\ Idle
    /\ \/ \E i \in DOMAIN fields_panel.field_rows :
            /\ fields_panel.field_rows[i] # fields_panel.selected_field_name
            /\ fields_panel' =
                 [fields_panel EXCEPT !.selected_field_name = fields_panel.field_rows[i]]
       \/ \E i \in DOMAIN fields_panel.creator_rows :
            /\ i - 1 # fields_panel.creator_cursor
            /\ fields_panel' =
                 [fields_panel EXCEPT !.creator_cursor = i - 1,
                                      !.selected_creator = fields_panel.creator_rows[i].key]
    /\ Done("other", None, FALSE, {}, {})
    /\ UNCHANGED <<db, disk, screen>>
    /\ PanelFrame

\* the branch of action_clear_field and action_edit_field that removes the
\* selected creator from item
RemoveSelectedCreator(at, result, item) ==
    LET sel_c_type == fields_panel.selected_creator[1]
        sel_c_index == fields_panel.selected_creator[2]
        changed == RemoveCreator(item, sel_c_type, sel_c_index)
        panel == [fields_panel EXCEPT !.item_object = changed]
    IN  /\ Save(at, result, changed)
        /\ IF fields_panel.selected_creator \in RowKeys(fields_panel.creator_rows)
           THEN /\ fields_panel' \in AfterRemoveRow(panel, fields_panel.selected_creator)
                /\ screen' = screen
           ELSE \* creators.remove_row raises RowDoesNotExist
                /\ fields_panel' = panel
                /\ screen' = Exited

\* the creator the handlers address: the unpacking of selected_creator and the
\* subscript succeed
CreatorAddressed(item) ==
    /\ fields_panel.selected_creator # NoCreator
    /\ fields_panel.selected_creator[1] \in DOMAIN item.creators
    /\ fields_panel.selected_creator[2] < Len(item.creators[fields_panel.selected_creator[1]])

\* sel_c_type not in item.creators or not item.creators[sel_c_type]
CreatorListMissing(item) ==
    /\ fields_panel.selected_creator # NoCreator
    /\ \/ fields_panel.selected_creator[1] \notin DOMAIN item.creators
       \/ item.creators[fields_panel.selected_creator[1]] = <<>>

\* the field row under the cursor of the fields table
AtField(op) == At(op, fields_panel.selected_field_name, 0)

\* the creator row under the cursor of the creators table
AtCreator(op) == At(op, fields_panel.selected_creator[1], fields_panel.selected_creator[2])

\* focus is the table of the panel that has the focus when the key is pressed
action_clear_field(focus) ==
    /\ PanelReady
    /\ LET item == fields_panel.item_object
           name == fields_panel.selected_field_name
       IN  \/ /\ focus = "fields-dt"
              /\ IF IsProtected(name)
                 THEN Return(AtField("clear_field"), NoModal)
                 ELSE IF name \notin DOMAIN item.field_data
                 THEN Return(AtField("clear_field"), NoModal)
                 ELSE /\ Save(AtField("clear_field"), NoModal, DelField(item, name))
                      /\ fields_panel' =
                           [fields_panel EXCEPT !.item_object = DelField(item, name)]
                      /\ screen' = IF name \in Range(fields_panel.field_rows) THEN screen
                                   ELSE Exited
           \/ /\ focus = "creators-dt"
              /\ IF CreatorListMissing(item)
                 THEN Return(AtCreator("clear_creator"), NoModal)
                 ELSE IF ~CreatorAddressed(item)
                 THEN Raise(AtCreator("clear_creator"), NoModal)
                 ELSE RemoveSelectedCreator(AtCreator("clear_creator"), NoModal, item)
    /\ PanelFrame

\* the creators table shows the edited creator under its key
NameCellUpdated(table, key, new_value) ==
    [i \in DOMAIN table |-> IF table[i].key = key
                            THEN [table[i] EXCEPT !.name = new_value]
                            ELSE table[i]]

\* the fields.has_focus branch of action_edit_field; new_value is the result of
\* the editor screen
EditSelectedField(item, name) ==
    IF IsProtected(name)
    THEN Return(AtField("edit_field"), NoModal)
    ELSE IF ~is_field_date(name) /\ name \notin Range(fields_panel.field_rows)
    THEN \* fields.get_cell raises CellDoesNotExist
         Raise(AtField("edit_field"), NoModal)
    ELSE \E new_value \in IF is_field_date(name) THEN DateFieldEditorResults
                          ELSE StandardFieldEditorResults :
            IF IsNoResult(new_value)
            THEN Return(AtField("edit_field"), new_value)
            ELSE /\ Save(AtField("edit_field"), new_value,
                         SetField(item, name, new_value.value))
                 /\ fields_panel' =
                      [fields_panel EXCEPT
                         !.item_object = SetField(item, name, new_value.value)]
                 /\ screen' = IF name \in Range(fields_panel.field_rows)
                              THEN screen ELSE Exited

\* the creators.has_focus branch of action_edit_field; result is the result of
\* NameEditor
EditSelectedCreator(item) ==
    IF CreatorListMissing(item)
    THEN Return(AtCreator("edit_creator"), NoModal)
    ELSE IF ~CreatorAddressed(item)
    THEN Raise(AtCreator("edit_creator"), NoModal)
    ELSE LET sel_c_type == fields_panel.selected_creator[1]
             sel_c_index == fields_panel.selected_creator[2]
             initial_value == item.creators[sel_c_type][sel_c_index + 1]
         IN  \E result \in NameEditorResults(initial_value) :
                LET new_value == result.value
                    changed == ReplaceCreator(item, sel_c_type, sel_c_index, new_value)
                IN  IF IsNoResult(result)
                    THEN Return(AtCreator("edit_creator"), result)
                    ELSE IF empty(new_value)
                    THEN RemoveSelectedCreator(AtCreator("edit_creator"), result, item)
                    ELSE /\ Save(AtCreator("edit_creator"), result, changed)
                         /\ IF fields_panel.selected_creator
                                \in RowKeys(fields_panel.creator_rows)
                            THEN /\ fields_panel' =
                                      [fields_panel EXCEPT
                                         !.item_object = changed,
                                         !.creator_rows =
                                            NameCellUpdated(@, fields_panel.selected_creator,
                                                            new_value)]
                                 /\ screen' = screen
                            ELSE \* creators.update_cell raises CellDoesNotExist
                                 /\ fields_panel' =
                                      [fields_panel EXCEPT !.item_object = changed]
                                 /\ screen' = Exited

\* focus is the table of the panel that has the focus when the key is pressed
action_edit_field(focus) ==
    /\ PanelReady
    /\ \/ /\ focus = "fields-dt"
          /\ EditSelectedField(fields_panel.item_object, fields_panel.selected_field_name)
       \/ /\ focus = "creators-dt"
          /\ EditSelectedCreator(fields_panel.item_object)
    /\ PanelFrame

\* creator_type is the result of CreatorTypeSelectionScreen, None when cancelled
action_add_creator ==
    /\ PanelReady
    /\ LET item == fields_panel.item_object
       IN  \E result \in CreatorTypeSelectionResults(item.type) :
            IF IsNoResult(result)
            THEN Return(At("add_creator", "", 0), result)
            ELSE
                /\ CreatorCount(item) < MaxCreators
                /\ LET creator_type == result.value
                       changed == AppendCreator(item, creator_type, NameData)
                       key == <<creator_type, Len(changed.creators[creator_type]) - 1>>
                       panel == [fields_panel EXCEPT !.item_object = changed]
                   IN  /\ Save(At("add_creator", creator_type, key[2]), result, changed)
                       /\ IF key \in RowKeys(fields_panel.creator_rows)
                          THEN \* creators.add_row raises DuplicateKey
                               /\ fields_panel' = panel
                               /\ screen' = Exited
                          ELSE /\ fields_panel' =
                                    [panel EXCEPT
                                       !.creator_rows =
                                          Append(@, [key |-> key, name |-> NameData]),
                                       !.selected_creator =
                                          IF fields_panel.creator_rows = <<>> THEN key
                                          ELSE @]
                               /\ screen' = screen
    /\ PanelFrame

(***************************************************************************)
(* Manage-collections dialog                                               *)
(***************************************************************************)
RECURSIVE InsertEntries(_, _, _)
\* the insert loop of on_button_pressed over SelectionList.selected
InsertEntries(d, selected, item_rowid) ==
    IF selected = <<>>
    THEN d
    ELSE InsertEntries(InsertEntry(d, Head(selected), item_rowid), Tail(selected), item_rowid)

\* action_set_collections, then Cancel
set_collections_cancel ==
    /\ Idle
    /\ IF selected_row_key = NoKey
       THEN \* None has no .value: the dialog is never shown, the app exits
            /\ screen' = Exited
            /\ Done("other", None, FALSE, {}, {})
       ELSE /\ screen' = screen
            /\ DoneCancel("ItemCollectionScreen")
    /\ UNCHANGED <<db, disk, nodes, selected_node, cursor_line, selected_collection_id,
                   rows, cursor_row, selected_row_key, selected_item_rowid,
                   search_string, fields_panel>>
    /\ UNCHANGED startup

\* action_set_collections, then OK with the collections of `ticked` ticked in
\* list order: on_button_pressed as a whole
set_collections_ok ==
    /\ Idle
    /\ selected_row_key # NoKey
    /\ \E ticked \in SUBSET (DOMAIN db.collection) :
        LET item_rowid == IntOfKey(selected_row_key)
            d == InsertEntries(DeleteEntriesOfItem(db, item_rowid), SortedSeq(ticked),
                               item_rowid)
        IN  /\ db' = d
            /\ disk' = AfterCommit(disk, d)
            /\ Done("set_item_collections", item_rowid, item_rowid \in DOMAIN db.item,
                    ticked, CollectionsOf(db, item_rowid))
    /\ UNCHANGED <<nodes, selected_node, cursor_line, selected_collection_id,
                   rows, cursor_row, selected_row_key, selected_item_rowid,
                   search_string, fields_panel, screen>>
    /\ UNCHANGED startup

\* the same handler statement by statement: the delete statement
ok_delete ==
    /\ Idle
    /\ selected_row_key # NoKey
    /\ \E ticked \in SUBSET (DOMAIN db.collection) :
        LET item_rowid == IntOfKey(selected_row_key)
            d == DeleteEntriesOfItem(db, item_rowid)
        IN  /\ db' = d
            /\ disk' = AfterExecute(disk, d)
            /\ screen' = [name |-> "collections", item_rowid |-> selected_row_key,
                          todo |-> SortedSeq(ticked)]
            /\ Done("ok_delete", item_rowid, item_rowid \in DOMAIN db.item,
                    ticked, CollectionsOf(db, item_rowid))
    /\ UNCHANGED <<nodes, selected_node, cursor_line, selected_collection_id,
                   rows, cursor_row, selected_row_key, selected_item_rowid,
                   search_string, fields_panel>>
    /\ UNCHANGED startup

\* one turn of the insert loop
ok_insert ==
    /\ screen.name = "collections"
    /\ Len(screen.todo) > 0
    /\ LET d == InsertEntry(db, Head(screen.todo), IntOfKey(screen.item_rowid))
       IN  /\ db' = d
           /\ disk' = AfterExecute(disk, d)
    /\ screen' = [screen EXCEPT !.todo = Tail(@)]
    /\ last' = [last EXCEPT !.op = "ok_insert"]
    /\ UNCHANGED <<nodes, selected_node, cursor_line, selected_collection_id,
                   rows, cursor_row, selected_row_key, selected_item_rowid,
                   search_string, fields_panel>>
    /\ UNCHANGED startup

\* db_connection.commit() and dismiss()
ok_commit ==
    /\ screen.name = "collections"
    /\ Len(screen.todo) = 0
    /\ disk' = AfterCommit(disk, db)
    /\ screen' = NoScreen
    /\ last' = [last EXCEPT !.op = "set_item_collections"]
    /\ UNCHANGED <<db, nodes, selected_node, cursor_line, selected_collection_id,
                   rows, cursor_row, selected_row_key, selected_item_rowid,
                   search_string, fields_panel>>
    /\ UNCHANGED startup

(***************************************************************************)
(* Process                                                                 *)
(***************************************************************************)
\* the process ends (power loss, kill, unhandled exception) and is started
\* again on the same library: uncommitted changes are rolled back
restart ==
    /\ db' = disk
    /\ Mounted(disk)
    /\ IF screen.name = "collections"
       THEN last' = [last EXCEPT !.op = "crash"]
       ELSE Done("restart", None, FALSE, {}, {})
    /\ UNCHANGED disk
    /\ UNCHANGED startup

(***************************************************************************)
(* Library discovery                                                       *)
(***************************************************************************)
\* a path is the sequence of its names below the root directory
RootDir == <<>>

\* get_os_user_data_dir()
UserDataDir == <<"share">>

\* get_app_data_dir(): get_os_user_data_dir() / "pymetheus"
AppDataDir == UserDataDir \o <<"pymetheus">>

\* os.getcwd()
WorkDir == <<"work">>

LibraryName == "pymetheus.sqlite"

\* the directories of the model and the entries they can hold
Dirs == {RootDir, UserDataDir, AppDataDir, WorkDir}

Paths == Dirs \cup {d \o <<LibraryName>> : d \in Dirs} \cup {WorkDir \o <<"other.db">>}

Parent(path) == SubSeq(path, 1, Len(path) - 1)

\* the file systems main() can start on: the root and the working directory
\* exist, an entry exists only in a directory, the other database is a file
FileSystems ==
    {f \in [Paths -> {"dir", "file", "absent"}] :
        /\ f[RootDir] = "dir"
        /\ f[WorkDir] = "dir"
        /\ f[UserDataDir] # "file"
        /\ f[AppDataDir] # "file"
        /\ f[WorkDir \o <<"other.db">>] # "dir"
        /\ \A q \in Paths \ {RootDir} : f[q] # "absent" => f[Parent(q)] = "dir"}

\* path.is_dir(), path.is_file() and path.exists() on a file system
Kind(f, path) == IF path \in DOMAIN f THEN f[path] ELSE "absent"

\* a function that returns a path, and one that returns None
FoundAt(path) == [found |-> TRUE, path |-> path]

NoLibrary == [found |-> FALSE, path |-> <<>>]

\* search_library(path)
search_library(f, path) ==
    IF Kind(f, path) = "dir"
    THEN (IF Kind(f, path \o <<LibraryName>>) = "file"
          THEN FoundAt(path \o <<LibraryName>>)
          ELSE NoLibrary)
    ELSE IF Kind(f, path) = "file" /\ path[Len(path)] = LibraryName
    THEN FoundAt(path)
    ELSE NoLibrary

\* [specified_path, *specified_path.parents]: the path, then its parents from
\* the nearest to the root
WithParents(path) == [i \in 1..(Len(path) + 1) |-> SubSeq(path, 1, Len(path) + 1 - i)]

\* an element of library_paths: a Path, or the str that os.getcwd() returns
AsPath(path) == [is_path |-> TRUE, path |-> path]

AsStr(path) == [is_path |-> FALSE, path |-> path]

\* the outcomes of search_library_precedence: a path, None, or AttributeError
\* raised by the read of .parents on a str
Returned(result) == [raised |-> FALSE, found |-> result.found, path |-> result.path]

Raised == [raised |-> TRUE, found |-> FALSE, path |-> <<>>]

RECURSIVE search_library_precedence(_, _)
search_library_precedence(f, library_paths) ==
    IF library_paths = <<>> THEN Returned(NoLibrary)
    ELSE IF ~Head(library_paths).is_path THEN Raised
    ELSE LET hits == SelectSeq(WithParents(Head(library_paths).path),
                               LAMBDA parent : search_library(f, parent).found)
         IN  IF hits # <<>> THEN Returned(search_library(f, hits[1]))
             ELSE search_library_precedence(f, Tail(library_paths))

\* parsed_args.library: None without the flag
NoFlag == [given |-> FALSE, path |-> <<>>]

Flag(path) == [given |-> TRUE, path |-> path]

\* the values of --library the model passes
LibraryFlags ==
    {NoFlag, Flag(WorkDir), Flag(WorkDir \o <<LibraryName>>),
     Flag(WorkDir \o <<"other.db">>), Flag(AppDataDir)}

\* the process before main() runs
NotStarted(f, flag) ==
    [fs |-> f, library |-> flag, status |-> "starting", library_path |-> Returned(NoLibrary)]

\* the process of the sessions modelled above: started with --library on the
\* working directory, which holds a library
LibraryOpened ==
    [fs |-> [q \in Paths |-> IF q \in {RootDir, WorkDir} THEN "dir"
                             ELSE IF q = WorkDir \o <<LibraryName>> THEN "file"
                             ELSE "absent"],
     library |-> Flag(WorkDir),
     status |-> "running",
     library_path |-> Returned(FoundAt(WorkDir \o <<LibraryName>>))]

\* main(): the process goes on with the library, or ends with status 1 after
\* "No library found." or after the traceback of an unhandled exception
main ==
    /\ startup.status = "starting"
    /\ LET library_path ==
            IF startup.library.given
            THEN search_library_precedence(startup.fs, <<AsPath(startup.library.path)>>)
            ELSE search_library_precedence(startup.fs,
                                           <<AsPath(AppDataDir), AsStr(WorkDir)>>)
       IN  startup' = [startup EXCEPT
                         !.library_path = library_path,
                         !.status = IF library_path.raised \/ ~library_path.found
                                    THEN "exit 1" ELSE "running"]
    /\ Done("main", None, FALSE, {}, {})
    /\ UNCHANGED <<db, disk, nodes, selected_node, cursor_line, selected_collection_id,
                   rows, cursor_row, selected_row_key, selected_item_rowid,
                   search_string, fields_panel, screen>>

(***************************************************************************)
(* Specification                                                           *)
(***************************************************************************)
EmptyDb == [collection |-> <<>>, item |-> <<>>, collection_entry |-> <<>>]

Init ==
    /\ db = EmptyDb
    /\ disk = EmptyDb
    /\ nodes = <<>>
    /\ selected_node = RootNode
    /\ cursor_line = 0
    /\ selected_collection_id = None
    /\ rows = <<>>
    /\ cursor_row = 0
    /\ selected_row_key = NoKey
    /\ selected_item_rowid = None
    /\ search_string = ""
    /\ fields_panel = EmptyPanel
    /\ screen = NoScreen
    /\ startup = LibraryOpened
    /\ last = [op |-> "init", id |-> None, found |-> FALSE, sel |-> {}, old |-> {},
               saved |-> FALSE, notified |-> FALSE, button |-> NoButton,
               input |-> NoInput, name |-> "", index |-> 0]

\* the handlers that the collections panel and the items panel share
Handlers ==
    \/ on_tree_node_highlighted
    \/ action_delete_coll
    \/ action_create_coll
    \/ action_rename_coll
    \/ on_highlight
    \/ action_new_item
    \/ action_duplicate_item
    \/ action_delete_item
    \/ set_collections_cancel

Next ==
    \/ Handlers
    \/ set_collections_ok
    \/ restart

Spec == Init /\ [][Next]_vars

\* the items panel and the fields table: items are created and deleted and their
\* fields are edited and cleared
NextFields ==
    \/ on_highlight
    \/ action_new_item
    \/ action_delete_item
    \/ on_dt_row_highlight
    \/ action_clear_field("fields-dt")
    \/ action_edit_field("fields-dt")
    \/ restart

SpecFields == Init /\ [][NextFields]_vars

\* the library holds no item, one item
NoItems == db.item = <<>>

OneItem == Cardinality(DOMAIN db.item) = 1

NoCollections == db.collection = <<>>

\* no item has field data, creators
NoFieldData == \A r \in DOMAIN db.item : db.item[r].field_data = <<>>

NoCreators == \A r \in DOMAIN db.item : db.item[r].creators = <<>>

Pristine == NoFieldData /\ NoCreators

\* the collections panel shows no collection and the root is selected
AtRoot == nodes = <<>> /\ selected_node = RootNode /\ selected_collection_id = None

\* the library in which the session edits fields, creators
FieldsSession == OneItem /\ NoCollections /\ AtRoot /\ NoCreators

CreatorsSession == OneItem /\ NoCollections /\ AtRoot /\ NoFieldData

\* the items panel and the creators table of a library of one item: the item is
\* created and deleted and its creators are added, edited and cleared
NextCreators ==
    \/ NoItems /\ action_new_item
    \/ action_delete_item
    \/ on_dt_row_highlight
    \/ action_add_creator
    \/ action_clear_field("creators-dt")
    \/ action_edit_field("creators-dt")
    \/ restart

SpecCreators == Init /\ [][NextCreators]_vars

\* the collections panel alone: collections are created, renamed, selected and
\* deleted in a library without items
NextCollections ==
    \/ on_tree_node_highlighted
    \/ action_create_coll
    \/ action_rename_coll
    \/ action_delete_coll
    \/ restart

SpecCollections == Init /\ [][NextCollections]_vars

\* the collections panel and the items panel with the search box
NextSearch ==
    \/ on_tree_node_highlighted
    \/ action_create_coll
    \/ action_delete_coll
    \/ on_highlight
    \/ action_new_item
    \/ action_delete_item
    \/ set_collections_ok
    \/ on_input_submit
    \/ restart

SpecSearch == Init /\ [][NextSearch]_vars

\* every handler, in a session on a small library: one collection at a time,
\* created while no item has data; one item and its copy; fields are edited while
\* the library holds one item without creators and no collection, creators while
\* it holds one item without field data and no collection
NextAll ==
    \/ on_tree_node_highlighted
    \/ NoCollections /\ Pristine /\ action_create_coll
    \/ action_rename_coll
    \/ action_delete_coll
    \/ on_highlight
    \/ NoItems /\ action_new_item
    \/ Pristine /\ action_duplicate_item
    \/ Pristine /\ action_delete_item
    \/ set_collections_cancel
    \/ set_collections_ok
    \/ on_dt_row_highlight
    \/ CreatorsSession /\ action_add_creator
    \/ FieldsSession /\ action_clear_field("fields-dt")
    \/ CreatorsSession /\ action_clear_field("creators-dt")
    \/ FieldsSession /\ action_edit_field("fields-dt")
    \/ CreatorsSession /\ action_edit_field("creators-dt")
    \/ restart

SpecAll == Init /\ [][NextAll]_vars

\* the same program with the OK handler of the dialog run statement by statement
NextCrash ==
    \/ Handlers
    \/ ok_delete
    \/ ok_insert
    \/ ok_commit
    \/ restart

SpecCrash == Init /\ [][NextCrash]_vars

\* the start of the process on every file system and flag of the model
InitDiscovery ==
    /\ db = EmptyDb
    /\ disk = EmptyDb
    /\ nodes = <<>>
    /\ selected_node = RootNode
    /\ cursor_line = 0
    /\ selected_collection_id = None
    /\ rows = <<>>
    /\ cursor_row = 0
    /\ selected_row_key = NoKey
    /\ selected_item_rowid = None
    /\ search_string = ""
    /\ fields_panel = EmptyPanel
    /\ screen = NoScreen
    /\ startup \in {NotStarted(f, flag) : f \in FileSystems, flag \in LibraryFlags}
    /\ last = [op |-> "init", id |-> None, found |-> FALSE, sel |-> {}, old |-> {},
               saved |-> FALSE, notified |-> FALSE, button |-> NoButton,
               input |-> NoInput, name |-> "", index |-> 0]

NextDiscovery == main

SpecDiscovery == InitDiscovery /\ [][NextDiscovery]_vars

(***************************************************************************)
(* Properties                                                              *)
(***************************************************************************)
\* the rows of collection_entry that name an item, in table order
EntriesOfItem(d, item_rowid) == SelectSeq(d.collection_entry, LAMBDA e : e.item = item_rowid)

C3_SetItemCollectionsReplaces ==
    /\ [](last.op = "set_item_collections" => CollectionsOf(db, last.id) = last.sel)
    /\ [][last'.op = "set_item_collections" =>
            \A j \in (DOMAIN db.item) \ {last'.id} :
                EntriesOfItem(db', j) = EntriesOfItem(db, j)]_vars

\* an item with memberships was given a different, non-empty set while another
\* item had memberships of its own
C3_Witness ==
    /\ last.op = "set_item_collections"
    /\ last.old # {}
    /\ last.sel # {}
    /\ last.sel # last.old
    /\ \E j \in (DOMAIN db.item) \ {last.id} : CollectionsOf(db, j) # {}

\* an item was given the set it already had
C3_WitnessIdempotent ==
    last.op = "set_item_collections" /\ last.old # {} /\ last.sel = last.old

\* C4: collection_entry never holds two rows for the same (collection, item) pair
C4_OneEntryPerPair ==
    \A j, k \in DOMAIN db.collection_entry :
        db.collection_entry[j] = db.collection_entry[k] => j = k

\* a membership that existed was saved again by the dialog
C4_Witness ==
    /\ last.op = "set_item_collections"
    /\ last.old \cap last.sel # {}
    /\ Len(db.collection_entry) >= 2

C6_DeletedItemNotListed ==
    (last.op = "delete_item" /\ last.found) =>
        \A c \in last.old \cup (DOMAIN db.collection) \cup {None} :
            last.id \notin Range(ListItems(db, c))

\* an item was deleted from a collection that still exists and still lists another item
C6_Witness ==
    /\ last.op = "delete_item"
    /\ last.found
    /\ \E c \in last.old : c \in DOMAIN db.collection /\ Len(ListItems(db, c)) > 0

\* C7: delete_collection leaves the item table as it was
C7_DeleteCollectionKeepsItems ==
    [][last'.op = "delete_collection" => (db'.item = db.item /\ disk'.item = db.item)]_vars

\* the deleted collection held an item that is now in no collection and still exists
C7_Witness ==
    /\ last.op = "delete_collection"
    /\ last.found
    /\ \E i \in last.old : i \in DOMAIN db.item /\ CollectionsOf(db, i) = {}

\* the names of the collections other than rowid
OtherNames(d, rowid) == {d.collection[r] : r \in (DOMAIN d.collection) \ {rowid}}

MembersOf(d, col_rowid) == ItemsOf(d, col_rowid) \cap DOMAIN d.item

\* C9 as stated: the list of a collection holds the items with an entry for it, the
\* list of none holds all items, and both are in ascending order of item rowid
C9_ListItemsAscending ==
    \A c \in (DOMAIN db.collection) \cup {None} :
        LET listed == ListItems(db, c)
        IN  /\ Range(listed) = (IF c = None THEN DOMAIN db.item ELSE MembersOf(db, c))
            /\ \A i, j \in DOMAIN listed : i < j => listed[i] < listed[j]

\* C9 amended: the list of a collection holds each item with an entry for it once,
\* in the order of the membership rows; the list of none holds all items in
\* ascending order of item rowid
C9_ListItemsExact ==
    \A c \in (DOMAIN db.collection) \cup {None} :
        LET listed == ListItems(db, c)
        IN  /\ Range(listed) = (IF c = None THEN DOMAIN db.item ELSE MembersOf(db, c))
            /\ \A i, j \in DOMAIN listed : listed[i] = listed[j] => i = j
            /\ c = None => \A i, j \in DOMAIN listed : i < j => listed[i] < listed[j]
            /\ c # None =>
                    \A i, j \in DOMAIN listed : i < j =>
                        \E m, n \in DOMAIN db.collection_entry :
                            /\ m < n
                            /\ db.collection_entry[m] = [collection |-> c, item |-> listed[i]]
                            /\ db.collection_entry[n] = [collection |-> c, item |-> listed[j]]

\* a collection lists two items, the one with the larger rowid first, while
\* another collection lists only one of them
C9_Witness ==
    \E c \in DOMAIN db.collection :
        /\ Len(ListItems(db, c)) = 2
        /\ ListItems(db, c)[1] > ListItems(db, c)[2]
        /\ \E c2 \in DOMAIN db.collection : Len(ListItems(db, c2)) = 1

C11_DuplicateNoneReturns ==
    [][last'.op = "duplicate_item_none" =>
        /\ db' = db
        /\ disk' = disk
        /\ screen'.name # "exited"]_vars

C13_RenameStaleFails ==
    [][last'.op = "rename_collection" =>
        IF last'.found
        THEN \E new \in RenameInputs :
                db' = [db EXCEPT !.collection = [@ EXCEPT ![last'.id] = new]]
        ELSE /\ db' = db
             /\ (last'.notified \/ screen'.name = "exited")]_vars

\* C13: rename_collection on an existing id sets exactly that collection's name
\* to the new name and changes no other row; on an id that names no collection
\* the update matches nothing: no name changes, the store is unchanged and no
\* error is raised or reported
C13_RenameSetsOneName ==
    [][last'.op = "rename_collection" =>
        /\ db'.item = db.item
        /\ db'.collection_entry = db.collection_entry
        /\ disk' = db'
        /\ IF last'.found
           THEN \E new \in RenameInputs :
                    db'.collection = [db.collection EXCEPT ![last'.id] = new]
           ELSE /\ db'.collection = db.collection
                /\ ~last'.notified
                /\ screen' = screen]_vars

\* one of two collections was renamed and the other keeps another name
C13_Witness ==
    /\ last.op = "rename_collection"
    /\ last.found
    /\ \E c \in DOMAIN db.collection :
        /\ c # last.id
        /\ db.collection[c] # db.collection[last.id]

\* C14: a handler whose modal screen is left by Cancel leaves the store as it
\* was, in memory and on disk, and leaves the item of the fields panel as it was
C14_CancelChangesNothing ==
    [][last'.button = "cancel" =>
        /\ db' = db
        /\ disk' = disk
        /\ fields_panel'.item_object = fields_panel.item_object]_vars

\* the editor of a field that holds a value was left by Cancel
C14_Witness ==
    /\ last.button = "cancel"
    /\ last.op = "edit_field"
    /\ last.found
    /\ last.name \in DOMAIN db.item[last.id].field_data

\* the texts of the date editor that are a calendar date: year-month-day, three
\* integers, year 1 to 9999, month 1 to 12, day within the month
ValidDateText(parts) ==
    /\ Len(parts) = 3
    /\ \A i \in 1..3 : parts[i].int
    /\ parts[1].value \in 1..9999
    /\ parts[2].value \in 1..12
    /\ parts[3].value >= 1
    /\ parts[3].value <=
         (CASE parts[2].value \in {4, 6, 9, 11} -> 30
            [] parts[2].value = 2 ->
                 (IF parts[1].value % 400 = 0
                     \/ (parts[1].value % 4 = 0 /\ parts[1].value % 100 # 0)
                  THEN 29 ELSE 28)
            [] OTHER -> 31)

\* C15: OK in the date editor on a text that is not a calendar date discards the
\* edit: no write is issued, the stored value and the item of the panel are
\* unchanged; a text that is a date is stored as a date
C15_InvalidDateDiscarded ==
    [][(last'.op = "edit_field" /\ last'.button = "ok" /\ is_field_date(last'.name)) =>
        IF ValidDateText(last'.input)
        THEN /\ last'.saved
             /\ ~last'.notified
        ELSE /\ ~last'.saved
             /\ last'.notified
             /\ db' = db
             /\ disk' = disk
             /\ fields_panel' = fields_panel]_vars

\* 29 February of a year that is not a leap year was entered for a field that
\* holds a date
C15_Witness ==
    /\ last.op = "edit_field"
    /\ last.button = "ok"
    /\ last.name = "date"
    /\ last.input = <<Digits(2023), Digits(2), Digits(29)>>
    /\ last.found
    /\ "date" \in DOMAIN db.item[last.id].field_data

\* C16: clear and edit on the item type row of the fields table are refused, and
\* so is clear on a field for which the stored item holds no value: no write is
\* issued, the store is unchanged
C16_ProtectedOrAbsentRefused ==
    [][(/\ last'.op \in {"clear_field", "edit_field"}
        /\ \/ last'.name = "itemType"
           \/ /\ last'.op = "clear_field"
              /\ last'.found
              /\ last'.name \notin DOMAIN db.item[last'.id].field_data) =>
        /\ ~last'.saved
        /\ db' = db
        /\ disk' = disk]_vars

\* C17: no stored item, in memory of the connection or on disk, has a creator
\* type mapped to an empty list
C17_NoEmptyCreatorList ==
    \A d \in {db, disk} :
        \A r \in DOMAIN d.item :
            \A t \in DOMAIN d.item[r].creators : d.item[r].creators[t] # <<>>

\* the only creator of a type was edited to an empty name: its key is gone from
\* the stored item, which still has a creator of another type
C17_Witness ==
    /\ last.op = "edit_creator"
    /\ last.button = "ok"
    /\ last.input = <<"">>
    /\ last.saved
    /\ last.found
    /\ last.name \notin DOMAIN db.item[last.id].creators
    /\ db.item[last.id].creators # <<>>

C19_SearchFiltersFetched ==
    [][(last'.op = "search" /\ search_string = "") =>
        LET held == {IntOfKey(rows[i]) : i \in DOMAIN rows}
        IN  /\ \A i \in DOMAIN rows' : IntOfKey(rows'[i]) \in held
            /\ \A r \in held \cap DOMAIN db.item :
                 search(Item_from_triplet(db.item[r]), search_string') =>
                    RowKey(r) \in Range(rows')]_vars

\* C19: submitting a search string that differs from the current one queries the
\* store again: the table shows exactly the items the store holds for the
\* selected collection at that moment that match the new string
C19_SearchQueriesStore ==
    [][last'.op = "search" =>
        LET members == IF selected_collection_id = None THEN DOMAIN db.item
                       ELSE MembersOf(db, selected_collection_id)
            matching == {r \in members :
                            search(Item_from_triplet(db.item[r]), search_string')}
        IN  /\ db' = db
            /\ Range(rows') = {RowKey(r) : r \in matching}
            /\ Len(rows') = Cardinality(matching)]_vars

\* a search was submitted that hides one of the items of the library and shows
\* another
C19_Witness ==
    /\ last.op = "search"
    /\ search_string # ""
    /\ selected_collection_id = None
    /\ rows # <<>>
    /\ \E r \in DOMAIN db.item : RowKey(r) \notin Range(rows)

\* C20: in every state between two UI events the connection holds no
\* uncommitted change: what it reads is what the disk holds
C20_CommittedBetweenEvents == db = disk

\* a creator was added to an item and saved
C20_Witness ==
    /\ last.op = "add_creator"
    /\ last.saved
    /\ last.found
    /\ db.item[last.id].creators # <<>>

C22_NoBlankKeyStored ==
    \A d \in {db, disk} :
        \A r \in DOMAIN d.item :
            \A t \in DOMAIN d.item[r].creators :
                \A i \in DOMAIN d.item[r].creators[t] :
                    \A k \in DOMAIN d.item[r].creators[t][i] :
                        d.item[r].creators[t][i][k] # ""

\* the libraries search_library can return for a candidate: the library file
\* the candidate names, or the library file in the candidate or in a directory
\* above it
LibrariesFor(f, path) ==
    {q \in Paths : /\ f[q] = "file"
                   /\ q[Len(q)] = LibraryName
                   /\ \/ q = path
                      \/ \E k \in 0..Len(path) : Parent(q) = SubSeq(path, 1, k)}

\* the candidates of the precedence list, in order
Candidates(flag) == IF flag.given THEN <<flag.path>> ELSE <<AppDataDir, WorkDir>>

\* C23: main() goes on with a library found for the earliest candidate that
\* yields one, a file named pymetheus.sqlite, and ends with status 1 after no
\* library was found only when no candidate yields one
C23_EarliestCandidateWins ==
    startup.status # "starting" =>
        LET cands == Candidates(startup.library)
            yielding == {i \in DOMAIN cands : LibrariesFor(startup.fs, cands[i]) # {}}
        IN  IF yielding = {}
            THEN /\ ~startup.library_path.found
                 /\ startup.status = "exit 1"
            ELSE /\ ~startup.library_path.raised
                 /\ startup.library_path.found
                 /\ startup.library_path.path \in LibrariesFor(startup.fs, cands[Min(yielding)])
                 /\ startup.status = "running"

\* C24: right after create_collection, create_item or duplicate_item no
\* collection_entry row references the id the new row was given: the new
\* collection lists no item and the new item is listed by no collection
C24_NewRowHasNoEntries ==
    [][last'.op \in {"create_collection", "new_item", "duplicate_item"} =>
        /\ \A c \in (DOMAIN db'.collection) \ (DOMAIN db.collection) :
            /\ \A k \in DOMAIN db'.collection_entry : db'.collection_entry[k].collection # c
            /\ ListItems(db', c) = <<>>
        /\ \A n \in (DOMAIN db'.item) \ (DOMAIN db.item) :
            /\ \A k \in DOMAIN db'.collection_entry : db'.collection_entry[k].item # n
            /\ \A c \in DOMAIN db'.collection : n \notin Range(ListItems(db', c))
        /\ DOMAIN db'.collection # DOMAIN db.collection \/ DOMAIN db'.item # DOMAIN db.item
        /\ disk' = db']_vars

\* an item that is in a collection was duplicated
C24_Witness ==
    /\ last.op = "duplicate_item"
    /\ CollectionsOf(db, last.id) # {}
    /\ Cardinality(DOMAIN db.item) = 2

\* C25: whenever the fields panel has a selected item id that names a stored
\* item, and an item_object, the item_object is that stored item: same type,
\* field_data and creators
C25_PanelHoldsStoredItem ==
    (/\ Idle
     /\ selected_item_rowid # None
     /\ ItemExists(db, selected_item_rowid)
     /\ fields_panel.item_object # NoItem) =>
        fields_panel.item_object = Item_from_triplet(db.item[selected_item_rowid])

\* C26: the item selected for editing is none or an item shown in the items
\* table; when the table shows no item, no item is selected
C26_SelectedItemIsShown ==
    Idle => \/ selected_item_rowid = None
            \/ RowKey(selected_item_rowid) \in Range(rows)

\* C27: the items table shows exactly the items that list_items returns for
\* the selected collection and that match the search string
C27_TableShowsMatchingMembers ==
    Idle =>
        LET members == IF selected_collection_id = None THEN DOMAIN db.item
                       ELSE MembersOf(db, selected_collection_id)
            matching == {r \in members :
                            search_string = ""
                            \/ search(Item_from_triplet(db.item[r]), casefold(search_string))}
        IN  /\ Range(rows) = {RowKey(r) : r \in matching}
            /\ Len(rows) = Cardinality(matching)

\* C28: the rows of the creators table have pairwise distinct keys, and the row
\* keyed (type, i) shows the creator at position i of item.creators[type]
C28_CreatorRowsMatchItem ==
    (Idle /\ selected_item_rowid # None /\ fields_panel.item_object # NoItem) =>
        LET table == fields_panel.creator_rows
            item == fields_panel.item_object
        IN  /\ \A i, j \in DOMAIN table : table[i].key = table[j].key => i = j
            /\ \A i \in DOMAIN table :
                /\ table[i].key[1] \in DOMAIN item.creators
                /\ table[i].key[2] < Len(item.creators[table[i].key[1]])
                /\ render(table[i].name)
                      = render(item.creators[table[i].key[1]][table[i].key[2] + 1])

\* C30: OK in the name editor on a name whose six attributes are all empty
\* removes the edited creator from its list, and the creator type with its last
\* creator; OK on any other name puts that name at the position of the edited
\* creator; the other creators, their order, the type and the fields of the
\* item are unchanged, and the stored row is the changed item
C30_EmptyNameRemovesCreator ==
    [][(last'.op = "edit_creator" /\ last'.button = "ok") =>
        LET t == last'.name
            i == last'.index + 1
            before == fields_panel.item_object
            after == fields_panel'.item_object
            confirmed == NameEditorOk(before.creators[t][i], last'.input[1])
        IN  /\ after.type = before.type
            /\ after.field_data = before.field_data
            /\ (DOMAIN after.creators) \ {t} = (DOMAIN before.creators) \ {t}
            /\ \A u \in (DOMAIN before.creators) \ {t} : after.creators[u] = before.creators[u]
            /\ IF \A a \in NameAttrs : confirmed[a] = ""
               THEN IF Len(before.creators[t]) = 1
                    THEN t \notin DOMAIN after.creators
                    ELSE /\ t \in DOMAIN after.creators
                         /\ Len(after.creators[t]) = Len(before.creators[t]) - 1
                         /\ \A j \in DOMAIN after.creators[t] :
                              after.creators[t][j] =
                                 before.creators[t][IF j < i THEN j ELSE j + 1]
               ELSE /\ t \in DOMAIN after.creators
                    /\ Len(after.creators[t]) = Len(before.creators[t])
                    /\ \A j \in DOMAIN after.creators[t] :
                         after.creators[t][j] =
                            (IF j = i THEN confirmed ELSE before.creators[t][j])
            /\ last'.saved
            /\ disk' = db'
            /\ last'.found => Item_from_triplet(db'.item[last'.id]) = after]_vars

\* the first of two creators of a type was confirmed with an empty name: the
\* stored item keeps the other one, which has a family name
C30_Witness ==
    /\ last.op = "edit_creator"
    /\ last.button = "ok"
    /\ last.input = <<"">>
    /\ last.index = 0
    /\ last.found
    /\ last.name \in DOMAIN db.item[last.id].creators
    /\ Len(db.item[last.id].creators[last.name]) = 1
    /\ "family" \in DOMAIN db.item[last.id].creators[last.name][1]
    /\ db.item[last.id].creators[last.name][1]["family"] = "Shor"

\* the second of two creators of a type was given a family name
C30_WitnessReplace ==
    /\ last.op = "edit_creator"
    /\ last.button = "ok"
    /\ last.input = <<"Shor">>
    /\ last.index = 1
    /\ last.found
    /\ Len(db.item[last.id].creators[last.name]) = 2

\* C29: after an accepted edit of a field row to a value, the fields table
\* loaded again from the stored item shows that value in the row of the same
\* key, and after a clear it shows no value in that row
C29_EditedRowReloadsValue ==
    [][(/\ last'.op \in {"edit_field", "clear_field"}
        /\ last'.saved
        /\ last'.found) =>
        LET reloaded == FieldRows(Item_from_triplet(db'.item[last'.id]))
            v == IF last'.op = "clear_field" THEN NoStr
                 ELSE IF is_field_date(last'.name) THEN DateFieldEditorOk(last'.input)
                 ELSE last'.input[1]
        IN  /\ \E i \in DOMAIN reloaded : reloaded[i].key = last'.name
            /\ \A i \in DOMAIN reloaded : reloaded[i].key = last'.name => reloaded[i].value = v]_vars

\* C31: the name search of create_collection reaches its break after at most
\* (number of collections + 1) tested names, whatever the collections are
\* named, and the handler then inserts exactly one collection row, under the
\* name the search stopped at, and changes no other row
C31_NameSearchTerminates ==
    [][last'.op = "create_collection" =>
        LET n == Cardinality(DOMAIN db.collection)
            found == NameSearch(db, 1, n + 1)
        IN  /\ found.broke
            /\ found.tests <= n + 1
            /\ found.tests = found.counter
            /\ Cardinality(DOMAIN db'.collection) = n + 1
            /\ \A r \in DOMAIN db.collection :
                 r \in DOMAIN db'.collection /\ db'.collection[r] = db.collection[r]
            /\ \A r \in (DOMAIN db'.collection) \ (DOMAIN db.collection) :
                 db'.collection[r] = CollectionName(found.counter)
            /\ db'.item = db.item
            /\ db'.collection_entry = db.collection_entry
            /\ disk' = db']_vars

\* a collection was created while every smaller name was taken: the search
\* tested one name more than there were collections
C31_Witness ==
    /\ last.op = "create_collection"
    /\ Cardinality(DOMAIN db.collection) = 2
    /\ db.collection[last.id] = "Collection 2"
    /\ "Collection 1" \in OtherNames(db, last.id)

\* a collection was created while another one had been renamed to a later
\* name: the search stopped at the first name
C31_WitnessFirstName ==
    /\ last.op = "create_collection"
    /\ db.collection[last.id] = "Collection 1"
    /\ "Collection 2" \in OtherNames(db, last.id)
====
